---- MODULE Spec2Model ----
(***************************************************************************)
(* The three Chroma startup scripts of scripts/ as one state machine.      *)
(*                                                                         *)
(*   start_chroma.py         imports chromadb, builds an HttpClient and    *)
(*                           sleeps until Ctrl+C                           *)
(*   start_chroma_server.py  sets three environment variables, imports     *)
(*                           chromadb.app and uvicorn, runs the app; on    *)
(*                           ImportError retries with an import string     *)
(*   start_chroma_simple.py  sets four environment variables, imports      *)
(*                           uvicorn, runs the app by import string        *)
(*                                                                         *)
(* A state is one interpreter running one script: pc is the source line    *)
(* about to run (it stays on the line where the interpreter stopped), env  *)
(* is os.environ, modules the names the script itself has imported.  The   *)
(* collaborators (the import system, chromadb.HttpClient, uvicorn.run,     *)
(* time.sleep) are inputs: each call either returns or raises one of the   *)
(* exceptions of Raisable.  runs, raised, out and trace are histories.     *)
(* print is taken not to raise.                                            *)
(***************************************************************************)
EXTENDS Integers, Sequences, FiniteSets

VARIABLES script, pc, env, modules, client, runs, raised, out, trace, ticks,
          exited, exitStatus

vars == <<script, pc, env, modules, client, runs, raised, out, trace, ticks,
          exited, exitStatus>>

\* Number of completed time.sleep(1) calls after which the model stops
\* following the keep-alive loop of start_chroma.py.
MaxTicks == 3

Scripts == {"start_chroma", "start_chroma_server", "start_chroma_simple"}

EnvKeys == {"ANONYMIZED_TELEMETRY", "IS_PERSISTENT", "PERSIST_DIRECTORY",
            "ALLOW_RESET"}

Unset == "<unset>"

\* What the parent process may have left in os.environ for each key.
InheritedValues == {Unset, "TRUE", "False"}

\* ---- Python exceptions ------------------------------------------------

\* Base class of each exception class that occurs in the model.
BaseOf(cls) ==
    CASE cls = "ModuleNotFoundError" -> "ImportError"
      [] cls = "ImportError"         -> "Exception"
      [] cls = "RuntimeError"        -> "Exception"
      [] cls = "Exception"           -> "BaseException"
      [] cls = "KeyboardInterrupt"   -> "BaseException"
      [] cls = "SystemExit"          -> "BaseException"
      [] OTHER                       -> "object"

RECURSIVE IsSubclass(_, _)
IsSubclass(cls, base) ==
    IF cls = base THEN TRUE
    ELSE IF cls \in {"BaseException", "object"} THEN FALSE
    ELSE IsSubclass(BaseOf(cls), base)

Exc(cls, code) == [cls |-> cls, code |-> code]

\* Exceptions a collaborator call may raise: a failed import, any other
\* error, Ctrl+C, and sys.exit from inside the web server runner.
Raisable ==
    { Exc(c, 1) : c \in {"ImportError", "ModuleNotFoundError", "RuntimeError",
                         "KeyboardInterrupt"} }
    \cup { Exc("SystemExit", n) : n \in {0, 3} }

\* Exit status of the interpreter when exception e reaches the top level.
UncaughtStatus(e) ==
    IF e.cls = "SystemExit" THEN e.code
    ELSE IF e.cls = "KeyboardInterrupt" THEN 130
    ELSE 1

\* ---- shared steps -------------------------------------------------------

Running(s, line) == script = s /\ ~exited /\ pc = line

Executed(line) == trace' = Append(trace, line)

Raise(line, e) == raised' = Append(raised, [line |-> line, exc |-> e])

Uncaught(e) == exited' = TRUE /\ exitStatus' = UncaughtStatus(e) /\ pc' = pc

EndOfFile(line) == exited' = TRUE /\ exitStatus' = 0 /\ pc' = line

\* os.environ[key] = value at `line`, then fall through to `next`.
SetEnviron(s, line, key, value, next) ==
    /\ Running(s, line)
    /\ env' = [env EXCEPT ![key] = value]
    /\ pc' = next
    /\ Executed(line)
    /\ UNCHANGED <<script, modules, client, runs, raised, out, ticks,
                   exited, exitStatus>>

\* print(...) at `line`, then fall through to `next`.
Stdout(s, line, msg, next) ==
    /\ Running(s, line)
    /\ out' = Append(out, msg)
    /\ pc' = next
    /\ Executed(line)
    /\ UNCHANGED <<script, env, modules, client, runs, raised, ticks,
                   exited, exitStatus>>

\* One call of uvicorn.run(target, ...) made at `line`.
RunRecord(line, target) == [line |-> line, app |-> target, env |-> env]

Init ==
    /\ script \in Scripts
    /\ pc = IF script = "start_chroma" THEN 5
            ELSE IF script = "start_chroma_server" THEN 9 ELSE 8
    /\ env \in [EnvKeys -> InheritedValues]
    /\ modules = IF script = "start_chroma" THEN {}
                 ELSE IF script = "start_chroma_server" THEN {"os", "sys"}
                 ELSE {"os"}
    /\ client = FALSE
    /\ runs = <<>>
    /\ raised = <<>>
    /\ out = <<>>
    /\ trace = <<>>
    /\ ticks = 0
    /\ exited = FALSE
    /\ exitStatus = 0
\* ---- start_chroma.py ----------------------------------------------------

\* line 5: import chromadb
C_ImportChromadb ==
    /\ Running("start_chroma", 5)
    /\ Executed(5)
    /\ \/ /\ modules' = modules \cup {"chromadb"}
          /\ pc' = 6
          /\ UNCHANGED <<raised, exited, exitStatus>>
       \/ \E e \in Raisable :
             Raise(5, e) /\ Uncaught(e) /\ UNCHANGED modules
    /\ UNCHANGED <<script, env, client, runs, out, ticks>>

\* line 6: from chromadb.config import Settings
C_ImportSettings ==
    /\ Running("start_chroma", 6)
    /\ Executed(6)
    /\ \/ /\ modules' = modules \cup {"chromadb.config"}
          /\ pc' = 9
          /\ UNCHANGED <<raised, exited, exitStatus>>
       \/ \E e \in Raisable :
             Raise(6, e) /\ Uncaught(e) /\ UNCHANGED modules
    /\ UNCHANGED <<script, env, client, runs, out, ticks>>

\* lines 9-16: client = chromadb.HttpClient(..., settings=Settings(...))
C_HttpClient ==
    /\ Running("start_chroma", 9)
    /\ Executed(9)
    /\ \/ /\ client' = TRUE
          /\ pc' = 19
          /\ UNCHANGED <<raised, exited, exitStatus>>
       \/ \E e \in Raisable :
             Raise(9, e) /\ Uncaught(e) /\ UNCHANGED client
    /\ UNCHANGED <<script, env, modules, runs, out, ticks>>

\* lines 19-20: the "server ready" banner
C_Ready == Stdout("start_chroma", 19, "ready", 24)

\* line 24: import time (first statement of the try block)
C_ImportTime ==
    /\ Running("start_chroma", 24)
    /\ Executed(24)
    /\ modules' = modules \cup {"time"}
    /\ pc' = 26
    /\ UNCHANGED <<script, env, client, runs, raised, out, ticks,
                   exited, exitStatus>>

\* lines 25-26: while True: time.sleep(1); line 27 catches Ctrl+C only
C_Sleep ==
    /\ Running("start_chroma", 26)
    /\ Executed(26)
    /\ \/ /\ ticks < MaxTicks
          /\ ticks' = ticks + 1
          /\ pc' = 26
          /\ UNCHANGED raised
       \/ /\ Raise(26, Exc("KeyboardInterrupt", 1))
          /\ pc' = 28
          /\ UNCHANGED ticks
    /\ UNCHANGED <<script, env, modules, client, runs, out, exited, exitStatus>>

\* line 28: the "server stopped" message, then the end of the file
C_Stopped ==
    /\ Running("start_chroma", 28)
    /\ Executed(28)
    /\ out' = Append(out, "stopped")
    /\ EndOfFile(29)
    /\ UNCHANGED <<script, env, modules, client, runs, raised, ticks>>

\* ---- start_chroma_simple.py ---------------------------------------------

\* Line 8 assigning 'True'.
P_EnvTelemetryEnabled ==
    SetEnviron("start_chroma_simple", 8, "ANONYMIZED_TELEMETRY", "True", 9)

P_EnvTelemetry ==
    SetEnviron("start_chroma_simple", 8, "ANONYMIZED_TELEMETRY", "False", 9)

P_EnvPersistent ==
    SetEnviron("start_chroma_simple", 9, "IS_PERSISTENT", "TRUE", 10)

P_EnvDirectory ==
    SetEnviron("start_chroma_simple", 10, "PERSIST_DIRECTORY", "./chroma_db", 11)

P_EnvReset ==
    SetEnviron("start_chroma_simple", 11, "ALLOW_RESET", "TRUE", 13)

\* Line 13 importing the app as start_chroma_server.py line 15 does.
P_ImportUvicornAndApp ==
    /\ Running("start_chroma_simple", 13)
    /\ Executed(13)
    /\ \/ /\ modules' = modules \cup {"uvicorn", "chromadb.app"}
          /\ pc' = 15
          /\ UNCHANGED <<raised, exited, exitStatus>>
       \/ \E e \in Raisable :
             Raise(13, e) /\ Uncaught(e) /\ UNCHANGED modules
    /\ UNCHANGED <<script, env, client, runs, out, ticks>>

\* line 13: import uvicorn
P_ImportUvicorn ==
    /\ Running("start_chroma_simple", 13)
    /\ Executed(13)
    /\ \/ /\ modules' = modules \cup {"uvicorn"}
          /\ pc' = 15
          /\ UNCHANGED <<raised, exited, exitStatus>>
       \/ \E e \in Raisable :
             Raise(13, e) /\ Uncaught(e) /\ UNCHANGED modules
    /\ UNCHANGED <<script, env, client, runs, out, ticks>>

\* lines 15-18: the banner
P_Banner == Stdout("start_chroma_simple", 15, "starting_telemetry_disabled", 20)

\* lines 20-26: uvicorn.run("chromadb.app:app", ..., reload=False)
P_Run ==
    /\ Running("start_chroma_simple", 20)
    /\ Executed(20)
    /\ runs' = Append(runs, RunRecord(20, "chromadb.app:app"))
    /\ \/ EndOfFile(27) /\ UNCHANGED raised
       \/ \E e \in Raisable : Raise(20, e) /\ Uncaught(e)
    /\ UNCHANGED <<script, env, modules, client, out, ticks>>
\* ---- start_chroma_server.py ---------------------------------------------

S_EnvPersistent ==
    SetEnviron("start_chroma_server", 9, "IS_PERSISTENT", "TRUE", 10)

S_EnvDirectory ==
    SetEnviron("start_chroma_server", 10, "PERSIST_DIRECTORY", "./chroma_db", 11)

\* Line 11 assigning to the wrong key: ALLOW_RESET stays as inherited and
\* PERSIST_DIRECTORY is overwritten.
S_EnvResetWrongKey ==
    SetEnviron("start_chroma_server", 11, "PERSIST_DIRECTORY", "TRUE", 15)

S_EnvReset ==
    SetEnviron("start_chroma_server", 11, "ALLOW_RESET", "TRUE", 15)

\* The handler of line 27 written as `except Exception`.
CaughtByPrimaryAnyException(e) == IsSubclass(e.cls, "Exception")

\* line 27: except ImportError, guarding lines 15-26
CaughtByPrimary(e) == IsSubclass(e.cls, "ImportError")

\* The handler of line 44 written as `except ImportError`.
CaughtByFallbackImportErrorOnly(e) == IsSubclass(e.cls, "ImportError")

\* line 44: except Exception, guarding lines 33-43
CaughtByFallback(e) == IsSubclass(e.cls, "Exception")

\* An exception raised at `line` inside the primary try block.
PrimaryRaise(line, e) ==
    /\ Raise(line, e)
    /\ IF CaughtByPrimary(e)
       THEN pc' = 28 /\ UNCHANGED <<exited, exitStatus>>
       ELSE Uncaught(e)

\* An exception raised at `line` inside the nested try block.
FallbackRaise(line, e) ==
    /\ Raise(line, e)
    /\ IF CaughtByFallback(e)
       THEN pc' = 45 /\ UNCHANGED <<exited, exitStatus>>
       ELSE Uncaught(e)

\* line 15: from chromadb.app import app
S_ImportApp ==
    /\ Running("start_chroma_server", 15)
    /\ Executed(15)
    /\ \/ /\ modules' = modules \cup {"chromadb.app"}
          /\ pc' = 16
          /\ UNCHANGED <<raised, exited, exitStatus>>
       \/ \E e \in Raisable : PrimaryRaise(15, e) /\ UNCHANGED modules
    /\ UNCHANGED <<script, env, client, runs, out, ticks>>

\* line 16: import uvicorn
S_ImportUvicorn ==
    /\ Running("start_chroma_server", 16)
    /\ Executed(16)
    /\ \/ /\ modules' = modules \cup {"uvicorn"}
          /\ pc' = 18
          /\ UNCHANGED <<raised, exited, exitStatus>>
       \/ \E e \in Raisable : PrimaryRaise(16, e) /\ UNCHANGED modules
    /\ UNCHANGED <<script, env, client, runs, out, ticks>>

\* lines 18-19: the banner
S_Banner == Stdout("start_chroma_server", 18, "starting", 21)

\* lines 21-26: uvicorn.run(app, ...)
S_Run ==
    /\ Running("start_chroma_server", 21)
    /\ Executed(21)
    /\ runs' = Append(runs, RunRecord(21, "app"))
    /\ \/ EndOfFile(47) /\ UNCHANGED raised
       \/ \E e \in Raisable : PrimaryRaise(21, e)
    /\ UNCHANGED <<script, env, modules, client, out, ticks>>

\* lines 28-29: the "Import error" messages of the handler
S_ImportErrorMessage == Stdout("start_chroma_server", 28, "import_error", 33)

\* line 33: import uvicorn again; a module imported at line 16 is bound
\* from sys.modules and the statement cannot fail
S_RetryImportUvicorn ==
    /\ Running("start_chroma_server", 33)
    /\ Executed(33)
    /\ \/ /\ modules' = modules \cup {"uvicorn"}
          /\ pc' = 35
          /\ UNCHANGED <<raised, exited, exitStatus>>
       \/ /\ "uvicorn" \notin modules
          /\ \E e \in Raisable : FallbackRaise(33, e)
          /\ UNCHANGED modules
    /\ UNCHANGED <<script, env, client, runs, out, ticks>>

\* lines 35-36: the banner, a second time
S_RetryBanner == Stdout("start_chroma_server", 35, "starting", 38)

\* lines 38-43: uvicorn.run("chromadb.app:app", ...)
S_RetryRun ==
    /\ Running("start_chroma_server", 38)
    /\ Executed(38)
    /\ runs' = Append(runs, RunRecord(38, "chromadb.app:app"))
    /\ \/ EndOfFile(47) /\ UNCHANGED raised
       \/ \E e \in Raisable : FallbackRaise(38, e)
    /\ UNCHANGED <<script, env, modules, client, out, ticks>>

\* line 45: the "Failed to start server" message
S_FailedMessage == Stdout("start_chroma_server", 45, "failed", 46)

\* line 46: sys.exit(1) raises SystemExit(1), which nothing catches
S_Exit ==
    /\ Running("start_chroma_server", 46)
    /\ Executed(46)
    /\ Raise(46, Exc("SystemExit", 1))
    /\ Uncaught(Exc("SystemExit", 1))
    /\ UNCHANGED <<script, env, modules, client, runs, out, ticks>>

\* ---- the specification --------------------------------------------------

Next ==
    \/ C_ImportChromadb
    \/ C_ImportSettings
    \/ C_HttpClient
    \/ C_Ready
    \/ C_ImportTime
    \/ C_Sleep
    \/ C_Stopped
    \/ P_EnvTelemetry
    \/ P_EnvPersistent
    \/ P_EnvDirectory
    \/ P_EnvReset
    \/ P_ImportUvicorn
    \/ P_Banner
    \/ P_Run
    \/ S_EnvPersistent
    \/ S_EnvDirectory
    \/ S_EnvReset
    \/ S_ImportApp
    \/ S_ImportUvicorn
    \/ S_Banner
    \/ S_Run
    \/ S_ImportErrorMessage
    \/ S_RetryImportUvicorn
    \/ S_RetryBanner
    \/ S_RetryRun
    \/ S_FailedMessage
    \/ S_Exit

Spec == Init /\ [][Next]_vars

TypeOK ==
    /\ script \in Scripts
    /\ pc \in 5..47
    /\ env \in [EnvKeys -> InheritedValues \cup {"./chroma_db"}]
    /\ modules \subseteq {"os", "sys", "time", "uvicorn", "chromadb",
                          "chromadb.config", "chromadb.app"}
    /\ client \in BOOLEAN
    /\ Len(runs) \in 0..2
    /\ ticks \in 0..MaxTicks
    /\ exited \in BOOLEAN
    /\ exitStatus \in {0, 1, 3, 130}
\* ---- properties ---------------------------------------------------------

Range(seq) == { seq[i] : i \in DOMAIN seq }

\* The lines of script s that assign to os.environ.
EnvLines(s) ==
    IF s = "start_chroma_server" THEN 9..11
    ELSE IF s = "start_chroma_simple" THEN 8..11
    ELSE {}

SetsEnvironment == Range(trace) \cap EnvLines(script) # {}

ImportsChromadb ==
    modules \cap {"chromadb", "chromadb.config", "chromadb.app"} # {}

InvokesRunner == Len(runs) > 0

\* The script has got as far as serving: uvicorn.run has been called, or
\* start_chroma.py has announced "server ready".
Serving ==
    \/ InvokesRunner
    \/ script = "start_chroma" /\ "ready" \in Range(out)

Telemetry(e) == e["ANONYMIZED_TELEMETRY"]

\* C5: in start_chroma_simple.py ANONYMIZED_TELEMETRY is 'False' from the
\* end of line 8 on: when uvicorn is imported, at every call of uvicorn.run
\* and in every later state of the script.
C5_TelemetryDisabled ==
    script = "start_chroma_simple" =>
        /\ pc > 8 => Telemetry(env) = "False"
        /\ "uvicorn" \in modules => Telemetry(env) = "False"
        /\ \A i \in DOMAIN runs : Telemetry(runs[i].env) = "False"

C5_Witness ==
    /\ script = "start_chroma_simple"
    /\ "uvicorn" \in modules
    /\ Len(runs) = 1
    /\ Telemetry(runs[1].env) = "False"

PersistenceSettings(e) ==
    /\ e["IS_PERSISTENT"] = "TRUE"
    /\ e["PERSIST_DIRECTORY"] = "./chroma_db"
    /\ e["ALLOW_RESET"] = "TRUE"

\* C6: in start_chroma_server.py and start_chroma_simple.py every call of
\* uvicorn.run, on the primary path and on the fallback path, finds
\* IS_PERSISTENT='TRUE', PERSIST_DIRECTORY='./chroma_db' and
\* ALLOW_RESET='TRUE' in the environment, whatever was inherited, and the
\* three keep these values from the end of line 11 on.
C6_PersistenceEnvAtRun ==
    script \in {"start_chroma_server", "start_chroma_simple"} =>
        /\ \A i \in DOMAIN runs : PersistenceSettings(runs[i].env)
        /\ pc > 11 => PersistenceSettings(env)

C6_Witness ==
    /\ script = "start_chroma_server"
    /\ Len(runs) = 2
    /\ runs[1].line = 21
    /\ runs[2].line = 38
    /\ PersistenceSettings(runs[2].env)

\* An ImportError (or a subclass) was raised inside the primary try block.
PrimaryImportError ==
    \E i \in DOMAIN raised :
        /\ raised[i].line \in 15..26
        /\ IsSubclass(raised[i].exc.cls, "ImportError")

\* The nested try block of the handler has been entered.
FallbackAttempted == Range(trace) \cap 33..43 # {}

\* The primary uvicorn.run returned or raised something else than an
\* ImportError.
PrimaryRunEnded ==
    /\ 21 \in Range(trace)
    /\ ~PrimaryImportError

\* C7: in start_chroma_server.py the fallback is attempted only after an
\* ImportError raised in the primary try block, and a script that has
\* stopped after such an ImportError has attempted it; after a normal
\* return of the primary uvicorn.run, or any other exception, there is no
\* fallback; uvicorn.run is called at most twice, and once at most when the
\* first call returned.
C7_FallbackIffImportError ==
    script = "start_chroma_server" =>
        /\ FallbackAttempted => PrimaryImportError
        /\ (exited /\ PrimaryImportError) => FallbackAttempted
        /\ PrimaryRunEnded => ~FallbackAttempted /\ Len(runs) = 1
        /\ Len(runs) <= 2
        /\ Len(runs) = 2 => runs[1].line = 21 /\ runs[2].line = 38

C7_Witness ==
    /\ script = "start_chroma_server"
    /\ exited
    /\ Len(runs) = 2
    /\ \E i \in DOMAIN raised :
          raised[i].line = 21 /\ raised[i].exc.cls = "ModuleNotFoundError"

\* The fallback attempt raised an Exception.
FallbackFailed ==
    \E i \in DOMAIN raised :
        /\ raised[i].line \in 33..43
        /\ IsSubclass(raised[i].exc.cls, "Exception")

\* C8: in start_chroma_server.py, once the fallback attempt has raised an
\* Exception the script can only print "Failed to start server" and exit:
\* when it has stopped the message is on stdout and the exit status is 1,
\* never 0.
C8_FailedFallbackExitsOne ==
    (script = "start_chroma_server" /\ FallbackFailed) =>
        /\ ~exited => pc \in {45, 46}
        /\ pc = 46 => "failed" \in Range(out)
        /\ exited => /\ "failed" \in Range(out)
                     /\ exitStatus = 1
                     /\ pc = 46

C8_Witness ==
    /\ script = "start_chroma_server"
    /\ exited
    /\ exitStatus = 1
    /\ \E i \in DOMAIN raised :
          raised[i].line = 33 /\ raised[i].exc.cls = "ImportError"
    /\ "failed" \in Range(out)
====
